---- MODULE Spec2Model ----
(***************************************************************************)
(* Listing-reaction analysis: the adaptive launch-time search              *)
(* (launch_util.find_first_trade_time), the venue dispatch around it       *)
(* (launch_util.resolve_launch_time), the micro-high detector               *)
(* (micro_highs) and the launch high/low pass (launch_highlow).            *)
(*                                                                         *)
(* Time is in milliseconds counted from 2020-01-01T00:00:00Z (the default  *)
(* search start of resolve_launch_time), so that every value fits TLC's    *)
(* integers; Python's integers are unbounded and the code only adds,       *)
(* compares and divides by 1000, which the shift by a whole number of      *)
(* seconds preserves.  An Optional value is a set: {} is None, {v} is v.   *)
(***************************************************************************)
EXTENDS Integers, Sequences, FiniteSets, TLC

VARIABLES
    \* the running call of find_first_trade_time: its arguments, its locals,
    \* its position, and the history of its calls to fetch_klines_fn
    search,
    \* the running call of resolve_launch_time: its arguments, the market its
    \* fetcher is trying, its result, and the requests and errors it has seen
    resolve,
    \* the history of the run: the first launch time a call of
    \* resolve_launch_time produced, with the (venue, ticker) it was produced for
    produced,
    \* the running call of compute_micro_highs: its arguments, its position
    \* and what it has computed
    micro,
    \* the running call of compute_launch_highlow: its arguments, its position
    \* and what it has computed
    highlow,
    \* two calls of _build_3m_series, of micro_highs and of launch_highlow
    \* alike: one on a candle list, one on a permutation of it
    bucketing,
    \* a MexcFuturesClient: its _use_ms, and the running or last call of
    \* fetch_klines with the requests it issued and what it parsed
    client,
    \* the announcement loop of main: --days, max_days, days_window and
    \* whether the last pass produced rows
    announce

vars == <<search, resolve, produced, micro, highlow, bucketing, client, announce>>

\* the state of the analysis passes, of the MEXC client and of main's loop,
\* which the launch-time search leaves alone
analysisVars == <<micro, highlow, bucketing, client, announce>>

\* the fields of the call, under the names the code gives them
start_ts_ms == search.start_ts_ms
interval_ms == search.interval_ms
max_lookahead_ms == search.max_lookahead_ms
limit == search.limit
source == search.fetch_klines_fn
cursor_ms == search.cursor_ms
window_ms == search.window_ms
pc == search.pc
result == search.result
exitKind == search.exitKind
nprobes == search.nprobes
lastProbe == search.lastProbe
allEmpty == search.allEmpty

----------------------------------------------------------------------------
(* Bounds of the model *)

\* the longest lookahead tried, in hours
MaxLookaheadHours == 40
\* the probe counter saturates here (only a search that never ends reaches it)
MaxProbes == 100
\* the most timestamps a source holds, and the most it puts in one answer
MaxHeld == 3
MaxResp == 2
\* the most 3-minute buckets in a candle list
MaxBuckets == 5
\* the most candles in a list handed to _build_3m_series on its own
MaxCandles == 3
\* the most items a kline payload of the MEXC model holds
MaxItems == 2
\* the most passes of the announcement loop of main that are followed
MaxPasses == 8

----------------------------------------------------------------------------
(* Helpers *)

Min2(a, b) == IF a <= b THEN a ELSE b

SetMin(S) == CHOOSE x \in S : \A y \in S : x <= y

SetMax(S) == CHOOSE x \in S : \A y \in S : y <= x

SmallSubsets(S, n) == {T \in SUBSET S : Cardinality(T) <= n}

CeilDiv(a, b) == (a + b - 1) \div b

RECURSIVE FloorLog2(_)
FloorLog2(n) == IF n < 2 THEN 0 ELSE 1 + FloorLog2(n \div 2)

HourMs == 60 * 60 * 1000

----------------------------------------------------------------------------
(* find_first_trade_time *)

MaxWindowMs(lim, interval) == Min2(16 * 60 * 60 * 1000, lim * interval)

\* a bug: the search starts with the widest window
InitialWindowMs_Widest(lim, interval) == MaxWindowMs(lim, interval)

InitialWindowMs(lim, interval) == Min2(2 * 60 * 60 * 1000, MaxWindowMs(lim, interval))

SearchEndMs(start, lookahead) == start + lookahead

\* a bug: the probe window is not cut at search_end
WindowEndMs_Unclamped(cursor, window, search_end) == cursor + window

WindowEndMs(cursor, window, search_end) == Min2(cursor + window, search_end)

\* fetch_klines_fn(...) or [], then the entries that are not None
Candles(raw) == IF raw.kind = "list" THEN raw.ts ELSE {}

\* a bug: the tolerance boundary itself is dropped
Filtered_Strict(candles, start, interval) == {ts \in candles : ts > start - interval}

Filtered(candles, start, interval) == {ts \in candles : ts >= start - interval}

\* a bug: the sanity check looks at the earliest timestamp
SanityViolated_MinTs(candles, window_end, interval) ==
    /\ candles # {}
    /\ SetMin(candles) > window_end + interval * 2

SanityViolated(candles, window_end, interval) ==
    /\ candles # {}
    /\ SetMax(candles) > window_end + interval * 2

\* a bug: the latest timestamp of the answer is reported
FirstTs_Latest(filtered) == SetMax(filtered)

\* first_ts = min(filtered)
FirstTs(filtered) == SetMin(filtered)

\* a bug: the window is halved instead of doubled
NextWindowMs_Halve(window, max_window) ==
    IF window < max_window THEN Min2(window \div 2, max_window) ELSE window \div 2

NextWindowMs(window, max_window) ==
    IF window < max_window THEN Min2(window * 2, max_window) ELSE window

\* a bug: the milliseconds are lost in the conversion
FromTimestampMs_WholeSeconds(ts) == [sec |-> ts \div 1000, usec |-> 0]

\* datetime.fromtimestamp(first_ts / 1000, tz=utc): whole seconds and microseconds
FromTimestampMs(ts) == [sec |-> ts \div 1000, usec |-> (ts % 1000) * 1000]

\* the instant of a datetime, back in milliseconds
DatetimeMs(dt) == dt.sec * 1000 + dt.usec \div 1000

----------------------------------------------------------------------------
(* The candle source.  An exact source answers a probe with the timestamps *)
(* it holds in [start_ms, end_ms); a free source answers anything: it may  *)
(* raise, return None, return a list of None entries, or any timestamps.   *)

HeldUniverse(start, interval, lookahead) ==
    { start - interval - 1, start - interval, start - 1, start,
      start + HourMs, start + 3 * HourMs,
      start + lookahead - 1, start + lookahead,
      start + lookahead + 2 * interval + 1 }

ProbePoints(start, interval, cursor, window_end) ==
    { start - interval - 1, start - interval, start,
      cursor, window_end - 1, window_end,
      window_end + interval * 2, window_end + interval * 2 + 1 }

ListAnswer(S) == [kind |-> "list", ts |-> S, nones |-> FALSE]

FreeAnswers(start, interval, cursor, window_end) ==
    { [kind |-> "raise", ts |-> {}, nones |-> FALSE],
      [kind |-> "none", ts |-> {}, nones |-> FALSE],
      [kind |-> "list", ts |-> {}, nones |-> TRUE] }
    \cup { ListAnswer(S) :
             S \in SmallSubsets(ProbePoints(start, interval, cursor, window_end), MaxResp) }

ExactAnswer(held, cursor, window_end) ==
    ListAnswer({t \in held : cursor <= t /\ t < window_end})

\* what the _fetch closures of the venue fetchers hand back: they raise when
\* session.get or the payload does, return [] on a status other than 200 or an
\* error code, and otherwise the timestamps of the payload, which a venue that
\* ignores the end of the window puts far beyond it
VenueAnswers(start, interval, cursor, window_end) ==
    { [kind |-> "raise", ts |-> {}, nones |-> FALSE],
      ListAnswer({}),
      ListAnswer({start - interval - 1}),
      ListAnswer({cursor}),
      ListAnswer({cursor, window_end + interval * 2 + 1}) }

SourceAnswers(src, start, interval, cursor, window_end) ==
    CASE src.mode = "exact" -> {ExactAnswer(src.held, cursor, window_end)}
      [] src.mode = "venue" -> VenueAnswers(start, interval, cursor, window_end)
      [] OTHER -> FreeAnswers(start, interval, cursor, window_end)

NoProbe == [start |-> 0, end |-> 0, kind |-> "none", ts |-> {}]

\* the state of find_first_trade_time after line 56
EnterSearch(start, interval, lookahead, lim, src) ==
    [ start_ts_ms      |-> start,
      interval_ms      |-> interval,
      max_lookahead_ms |-> lookahead,
      limit            |-> lim,
      fetch_klines_fn  |-> src,
      cursor_ms        |-> start,
      window_ms        |-> InitialWindowMs(lim, interval),
      pc               |-> "loop",
      result           |-> {},
      exitKind         |-> "running",
      nprobes          |-> 0,
      lastProbe        |-> NoProbe,
      allEmpty         |-> TRUE ]

\* the loop condition: while cursor_ms < search_end_ms
InLoop(f) ==
    /\ f.pc = "loop"
    /\ f.cursor_ms < SearchEndMs(f.start_ts_ms, f.max_lookahead_ms)

\* window_end_ms of the iteration that call f is about to run
CurrentWindowEnd(f) ==
    WindowEndMs(f.cursor_ms, f.window_ms,
                SearchEndMs(f.start_ts_ms, f.max_lookahead_ms))

\* one iteration of the while loop, with the source's answer `raw`
Iterate(f, raw) ==
    LET window_end == CurrentWindowEnd(f)
        candles    == Candles(raw)
        filtered   == Filtered(candles, f.start_ts_ms, f.interval_ms)
        probed     == [f EXCEPT
                         !.nprobes = Min2(f.nprobes + 1, MaxProbes),
                         !.lastProbe = [start |-> f.cursor_ms, end |-> window_end,
                                        kind |-> raw.kind, ts |-> candles],
                         !.allEmpty = (f.allEmpty /\ raw.kind # "raise" /\ candles = {})]
    IN  IF raw.kind = "raise"
        THEN [probed EXCEPT !.pc = "raised", !.exitKind = "raised"]
        ELSE IF SanityViolated(candles, window_end, f.interval_ms)
        THEN [probed EXCEPT !.pc = "done", !.exitKind = "sanity", !.result = {}]
        ELSE IF filtered # {}
        THEN [probed EXCEPT !.pc = "done", !.exitKind = "found",
                            !.result = {FromTimestampMs(FirstTs(filtered))}]
        ELSE [probed EXCEPT
                !.cursor_ms = window_end,
                !.window_ms = NextWindowMs(f.window_ms,
                                           MaxWindowMs(f.limit, f.interval_ms))]

\* the loop condition fails: LAUNCH_NOT_FOUND
NotFound(f) == [f EXCEPT !.pc = "done", !.exitKind = "not_found", !.result = {}]

\* the answers the source of call f may give to its next probe
AnswersFor(f) ==
    SourceAnswers(f.fetch_klines_fn, f.start_ts_ms, f.interval_ms, f.cursor_ms,
                  CurrentWindowEnd(f))

Probe ==
    /\ InLoop(search)
    /\ \E raw \in AnswersFor(search) : search' = Iterate(search, raw)
    /\ UNCHANGED <<resolve, produced, analysisVars>>

ExitLoop ==
    /\ pc = "loop"
    /\ ~InLoop(search)
    /\ search' = NotFound(search)
    /\ UNCHANGED <<resolve, produced, analysisVars>>

----------------------------------------------------------------------------
(* resolve_launch_time and the venue fetchers _fetch_first_candle_*         *)

VenueNames == {"Binance", "Bybit", "Gate", "Bitget", "KuCoin", "XT", "Kraken", "Huobi"}

Tickers == {"AAA"}

\* the fetchers built on find_first_trade_time
SearchVenues == {"Bybit", "Bitget", "XT"}

\* a bug: a venue name no branch knows falls through to the Binance fetcher
Supported_ElseBinance(v) == TRUE

\* the if/elif chain of resolve_launch_time
Supported(v) == v \in {"Binance", "Bybit", "Gate", "Bitget", "KuCoin", "XT", "Kraken"}

\* Kraken is spot only; every other fetcher tries futures first
FirstMarket(v) == IF v = "Kraken" THEN "spot" ELSE "futures"

\* search_start_time: None, or a datetime
StartTimeChoices == { {}, {[sec |-> 10 * 24 * 60 * 60, usec |-> 250000]} }

\* start_ts = int(start_dt.timestamp()), datetime(2020, 1, 1) when None is given
StartTs(search_start_time) ==
    IF search_start_time = {} THEN 0
    ELSE (CHOOSE dt \in search_start_time : TRUE).sec

\* the defaults of find_first_trade_time, which the fetchers do not override
DefaultMaxLookaheadMs == 7 * 24 * 60 * 60 * 1000
DefaultLimit == 1000
\* interval_ms = 60 * 1000 in the fetchers
VenueIntervalMs == 60 * 1000

VenueSource == [mode |-> "venue", held |-> {}]

\* start_ts_ms = start_ts * 1000, then find_first_trade_time(_fetch, ...)
VenueSearch(start_ts) ==
    EnterSearch(start_ts * 1000, VenueIntervalMs, DefaultMaxLookaheadMs,
                DefaultLimit, VenueSource)

\* no call of find_first_trade_time is running
NoSearch == [EnterSearch(0, 0, 0, 0, VenueSource) EXCEPT !.pc = "idle"]

\* datetime.fromtimestamp(ts, tz=utc) of a timestamp in whole seconds
FromTimestampS(ts) == [sec |-> ts, usec |-> 0]

\* the fetchers that read a millisecond timestamp from the payload
PayloadInMs(v, market) ==
    \/ v \notin {"Gate", "KuCoin", "Kraken"}
    \/ (v = "KuCoin" /\ market = "futures")

\* what one request of a single-request fetcher comes to: it raises
\* (session.get, resp.json() or int() of a malformed payload), answers with a
\* status other than 200, with no candle, with a first candle that has no "t"
\* (Gate futures), or with a first candle
SimpleOutcomes(v, market, start_ts) ==
    { [kind |-> "raise", ts |-> 0], [kind |-> "status", ts |-> 0],
      [kind |-> "empty", ts |-> 0] }
    \cup (IF v = "Gate" /\ market = "futures" THEN {[kind |-> "no_t", ts |-> 0]} ELSE {})
    \cup { [kind |-> "data",
            ts |-> IF PayloadInMs(v, market) THEN (start_ts + k) * 1000 ELSE start_ts + k] :
             k \in {0, 60} }

\* the launch time a single-request fetcher reads from that outcome, if any
SimpleLaunch(v, market, outcome) ==
    IF outcome.kind # "data" THEN {}
    ELSE IF PayloadInMs(v, market) THEN {FromTimestampMs(outcome.ts)}
    ELSE {FromTimestampS(outcome.ts)}

\* the except clause around each market attempt of a fetcher: every attempt
\* of every fetcher sits in try ... except Exception
AttemptCatches(v, market) == TRUE

\* the except clause of resolve_launch_time around the dispatch
ResolveCatches == TRUE

NoCall ==
    [ source_exchange |-> "", ticker |-> "", start_ts |-> 0,
      pc |-> "idle", market |-> "none", launch_time |-> {},
      requested |-> FALSE, raises |-> 0, hadBefore |-> {} ]

NothingProduced == {}

\* the launch time the run has already produced for (v, t), if any
ProducedFor(v, t) ==
    IF \E p \in produced : p.key = <<v, t>>
    THEN (CHOOSE p \in produced : p.key = <<v, t>>).launch_time
    ELSE {}

\* resolve_launch_time returns launch_time
Returned(r, launch_time) ==
    [r EXCEPT !.pc = "returned", !.launch_time = launch_time]

Remember(r, launch_time) ==
    IF launch_time # {} /\ produced = {}
    THEN {[key |-> <<r.source_exchange, r.ticker>>, launch_time |-> launch_time]}
    ELSE produced

\* an error raised in a market attempt of call r: the fetcher's except clause
\* takes it and the fetcher goes on (to spot, or to return None); were it not
\* caught there, the clause of resolve_launch_time would return None
AfterRaise(r) ==
    IF AttemptCatches(r.source_exchange, r.market)
    THEN IF r.market = "futures"
         THEN [r EXCEPT !.market = "spot"]
         ELSE Returned(r, {})
    ELSE IF ResolveCatches
    THEN Returned(r, {})
    ELSE [r EXCEPT !.pc = "propagated"]

\* resolve_launch_time is called: lines 439-461, up to the fetcher's first request
CallResolve(v, t, search_start_time) ==
    /\ resolve.pc \in {"idle", "returned"}
    /\ LET start_ts == StartTs(search_start_time)
           r == [NoCall EXCEPT !.source_exchange = v, !.ticker = t,
                               !.start_ts = start_ts,
                               !.hadBefore = ProducedFor(v, t)]
       IN  IF Supported(v)
           THEN /\ resolve' = [r EXCEPT !.pc = "fetching", !.market = FirstMarket(v)]
                /\ search' = IF v \in SearchVenues THEN VenueSearch(start_ts) ELSE NoSearch
           ELSE /\ resolve' = Returned(r, {})
                /\ search' = NoSearch
    /\ UNCHANGED <<produced, analysisVars>>

\* one iteration of the search of a fetcher: one session.get
VenueProbe ==
    /\ resolve.pc = "fetching"
    /\ InLoop(search)
    /\ \E raw \in AnswersFor(search) :
          /\ search' = Iterate(search, raw)
          /\ resolve' = [resolve EXCEPT
                           !.requested = TRUE,
                           !.raises = resolve.raises + (IF raw.kind = "raise" THEN 1 ELSE 0)]
    /\ UNCHANGED <<produced, analysisVars>>

VenueExitLoop ==
    /\ resolve.pc = "fetching"
    /\ search.pc = "loop"
    /\ ~InLoop(search)
    /\ search' = NotFound(search)
    /\ UNCHANGED <<resolve, produced, analysisVars>>

\* return find_first_trade_time(...): whatever the search returned, None
\* included, is the fetcher's and resolve_launch_time's result
SearchReturns ==
    /\ resolve.pc = "fetching"
    /\ search.pc = "done"
    /\ resolve' = Returned(resolve, search.result)
    /\ produced' = Remember(resolve, search.result)
    /\ UNCHANGED <<search, analysisVars>>

\* the search raised: except Exception in the fetcher, then the spot search
\* or return None
SearchRaises ==
    /\ resolve.pc = "fetching"
    /\ search.pc = "raised"
    /\ resolve' = AfterRaise(resolve)
    /\ search' = IF AfterRaise(resolve).pc = "fetching"
                 THEN VenueSearch(resolve.start_ts) ELSE search
    /\ UNCHANGED <<produced, analysisVars>>

\* one market attempt of a single-request fetcher (Binance, Gate, KuCoin, Kraken)
SimpleAttempt ==
    /\ resolve.pc = "fetching"
    /\ resolve.source_exchange \notin SearchVenues
    /\ \E outcome \in SimpleOutcomes(resolve.source_exchange, resolve.market,
                                     resolve.start_ts) :
          LET asked == [resolve EXCEPT
                          !.requested = TRUE,
                          !.raises = resolve.raises + (IF outcome.kind = "raise" THEN 1 ELSE 0)]
              launch_time == SimpleLaunch(resolve.source_exchange, resolve.market, outcome)
              after == IF outcome.kind = "raise" THEN AfterRaise(asked)
                       ELSE IF launch_time # {} THEN Returned(asked, launch_time)
                       ELSE IF asked.market = "futures"
                       THEN [asked EXCEPT !.market = "spot"]
                       ELSE Returned(asked, {})
          IN  /\ resolve' = after
              /\ produced' = Remember(resolve, after.launch_time)
    /\ UNCHANGED <<search, analysisVars>>

----------------------------------------------------------------------------
(* micro_highs: _build_3m_series, _confirmed_micro_highs, compute_micro_highs *)
(*                                                                         *)
(* A candle is [timestamp, close]; timestamps are in seconds.  Closes are  *)
(* whole numbers and min_pullback_pct is given in percent, so that         *)
(* close * (1 - min_pullback_pct) is compared exactly, times one hundred.  *)

\* a bug: the seconds are kept
FloorTo3m_SecondsKept(ts) == ts - ((ts \div 60) % 3) * 60

\* ts.replace(minute=ts.minute - ts.minute % 3, second=0, microsecond=0)
FloorTo3m(ts) ==
    LET minute == (ts \div 60) % 60
    IN  (ts \div 3600) * 3600 + (minute - (minute % 3)) * 60

Last(seq) == seq[Len(seq)]

\* sorted(..., key=lambda c: c.timestamp): a stable sort
RECURSIVE InsertByTimestamp(_, _)
InsertByTimestamp(sorted, c) ==
    IF sorted = <<>> THEN <<c>>
    ELSE IF Head(sorted).timestamp <= c.timestamp
    THEN <<Head(sorted)>> \o InsertByTimestamp(Tail(sorted), c)
    ELSE <<c>> \o sorted

RECURSIVE SortByTimestamp(_)
SortByTimestamp(seq) ==
    IF seq = <<>> THEN <<>>
    ELSE InsertByTimestamp(SortByTimestamp(SubSeq(seq, 1, Len(seq) - 1)), Last(seq))

\* sorted(buckets.keys())
RECURSIVE SortedKeys(_)
SortedKeys(S) ==
    IF S = {} THEN <<>>
    ELSE LET least == SetMin(S) IN <<least>> \o SortedKeys(S \ {least})

\* a bug: the last candle, whatever its close
FirstMaxClose_LastCandle(seq) == seq[Len(seq)]

\* max(seq, key=lambda c: c.close): the first candle of the greatest close
FirstMaxClose(seq) ==
    LET best[i \in 1..Len(seq)] ==
            IF i = 1 THEN seq[1]
            ELSE IF seq[i].close > best[i - 1].close THEN seq[i] ELSE best[i - 1]
    IN  best[Len(seq)]

\* a bug: the last candle, whatever its close
FirstMinClose_LastCandle(seq) == seq[Len(seq)]

\* min(seq, key=lambda c: c.close): the first candle of the least close
FirstMinClose(seq) ==
    LET best[i \in 1..Len(seq)] ==
            IF i = 1 THEN seq[1]
            ELSE IF seq[i].close < best[i - 1].close THEN seq[i] ELSE best[i - 1]
    IN  best[Len(seq)]

\* buckets.setdefault(bucket_start, []).append(candle), for every candle
BucketsOf(candles) ==
    [k \in {FloorTo3m(candles[i].timestamp) : i \in 1..Len(candles)} |->
        SelectSeq(candles, LAMBDA c : FloorTo3m(c.timestamp) = k)]

\* the loop over sorted(buckets.keys()): each bucket's close is the close of
\* its candle of the latest timestamp
SeriesOf(order, buckets) ==
    [i \in 1..Len(order) |->
        [bucket_start |-> order[i],
         close3 |-> Last(SortByTimestamp(buckets[order[i]])).close]]

BuiltFrom(buckets) ==
    [series |-> SeriesOf(SortedKeys(DOMAIN buckets), buckets), buckets |-> buckets]

\* _build_3m_series: the series of buckets and the candles of each bucket
Build3mSeries(candles) == BuiltFrom(BucketsOf(candles))

\* a bug: a tie with the next bucket disqualifies as well
IsLocalHigh_StrictBoth(series, idx) ==
    /\ series[idx].close3 > series[idx - 1].close3
    /\ series[idx].close3 > series[idx + 1].close3

\* a bug: a bucket above the one before it is a local high, whatever follows
IsLocalHigh_RisingOnly(series, idx) ==
    series[idx].close3 > series[idx - 1].close3

\* current.close3 > prev.close3 and current.close3 >= nxt.close3
IsLocalHigh(series, idx) ==
    /\ series[idx].close3 > series[idx - 1].close3
    /\ series[idx].close3 >= series[idx + 1].close3

\* the buckets that pass the test of line 72 in the loop
\* for idx in range(1, len(series) - 1), from index idx on
RECURSIVE CandidatesFrom(_, _)
CandidatesFrom(series, idx) ==
    IF idx > Len(series) - 1 THEN <<>>
    ELSE (IF IsLocalHigh(series, idx) THEN <<series[idx].bucket_start>> ELSE <<>>)
         \o CandidatesFrom(series, idx + 1)

\* a bug: the slice stops one bucket early
Lookahead_OneShort(series, idx, lookahead_bars) ==
    SubSeq(series, idx + 1, Min2(idx + lookahead_bars - 1, Len(series)))

\* series[idx + 1 : idx + 1 + lookahead_bars] (idx counts from 1 here)
Lookahead(series, idx, lookahead_bars) ==
    SubSeq(series, idx + 1, Min2(idx + lookahead_bars, Len(series)))

\* a bug: a bucket exactly at the threshold confirms
BelowPullback_OrEqual(future, current, min_pullback_pct) ==
    future.close3 * 100 <= current.close3 * (100 - min_pullback_pct)

\* future.close3 < current.close3 * (1 - min_pullback_pct)
BelowPullback(future, current, min_pullback_pct) ==
    future.close3 * 100 < current.close3 * (100 - min_pullback_pct)

\* the for loop over lookahead, with its break
RECURSIVE PullbackConfirmed(_, _, _)
PullbackConfirmed(lookahead, current, min_pullback_pct) ==
    IF lookahead = <<>> THEN FALSE
    ELSE IF BelowPullback(Head(lookahead), current, min_pullback_pct) THEN TRUE
    ELSE PullbackConfirmed(Tail(lookahead), current, min_pullback_pct)

\* the first loop of _confirmed_micro_highs, from index idx on
RECURSIVE ConfirmedFrom(_, _, _, _, _)
ConfirmedFrom(series, buckets, lookahead_bars, min_pullback_pct, idx) ==
    IF idx > Len(series) - 1 THEN <<>>
    ELSE LET current == series[idx]
             micro_high_candle == FirstMaxClose(buckets[current.bucket_start])
             here ==
                IF /\ IsLocalHigh(series, idx)
                   /\ PullbackConfirmed(Lookahead(series, idx, lookahead_bars),
                                        current, min_pullback_pct)
                THEN << [bucket_start |-> current.bucket_start,
                         close3 |-> current.close3,
                         micro_high_close |-> micro_high_candle.close,
                         micro_high_time |-> micro_high_candle.timestamp,
                         pullback_low_close |-> {},
                         pullback_low_time |-> {},
                         pullback_size |-> {},
                         pullback_pct |-> {}] >>
                ELSE <<>>
         IN  here \o ConfirmedFrom(series, buckets, lookahead_bars,
                                   min_pullback_pct, idx + 1)

\* the second loop of _confirmed_micro_highs: the pullback low of each high
WithPullback(confirmed, candles, window_end) ==
    [idx \in 1..Len(confirmed) |->
        LET micro_high == confirmed[idx]
            next_boundary == IF idx + 1 <= Len(confirmed)
                             THEN confirmed[idx + 1].bucket_start
                             ELSE window_end
            search_start == micro_high.micro_high_time + 60
            lows == SelectSeq(candles, LAMBDA c :
                        search_start <= c.timestamp /\ c.timestamp < next_boundary)
        IN  IF lows = <<>> THEN micro_high
            ELSE LET low_candle == FirstMinClose(lows)
                     pullback_size == micro_high.micro_high_close - low_candle.close
                 IN  [micro_high EXCEPT
                        !.pullback_low_close = {low_candle.close},
                        !.pullback_low_time = {low_candle.timestamp},
                        !.pullback_size = {pullback_size},
                        !.pullback_pct =
                            IF micro_high.micro_high_close # 0
                            THEN {<<pullback_size, micro_high.micro_high_close>>}
                            ELSE {}]]

ConfirmedMicroHighs(series, buckets, candles, window_end, lookahead_bars, min_pullback_pct) ==
    WithPullback(ConfirmedFrom(series, buckets, lookahead_bars, min_pullback_pct, 2),
                 candles, window_end)

\* a bug: a later high of equal key replaces the earlier one
PullbackKeyGreater_OrEqual(a, b) ==
    \/ b.pullback_size = {}
    \/ \E x \in a.pullback_size : \E y \in b.pullback_size : x >= y

\* the key of max(confirmed, key=...): pullback_size, or -inf when it is None
PullbackKeyGreater(a, b) ==
    /\ a.pullback_size # {}
    /\ \/ b.pullback_size = {}
       \/ \E x \in a.pullback_size : \E y \in b.pullback_size : x > y

\* max(confirmed, key=...): the first high of the greatest key
FirstMaxPullback(confirmed) ==
    LET best[i \in 1..Len(confirmed)] ==
            IF i = 1 THEN confirmed[1]
            ELSE IF PullbackKeyGreater(confirmed[i], best[i - 1])
            THEN confirmed[i] ELSE best[i - 1]
    IN  best[Len(confirmed)]

MicroHighResult(m1c, m1t, l1c, l1t, m2c, m2t, l2c, l2t, notes) ==
    [ max_price_1_close |-> m1c, max_price_1_time |-> m1t,
      lowest_after_1_close |-> l1c, lowest_after_1_time |-> l1t,
      max_price_2_close |-> m2c, max_price_2_time |-> m2t,
      lowest_after_2_close |-> l2c, lowest_after_2_time |-> l2t,
      notes |-> notes ]

\* the return statements of compute_micro_highs for a window that is not empty
Report(filtered, built, confirmed, max_price_2_candle, after_2, max_pullback) ==
    LET lowest_after_2_close ==
            IF after_2 # <<>> THEN {FirstMinClose(after_2).close} ELSE {}
        lowest_after_2_time ==
            IF after_2 # <<>> THEN {FirstMinClose(after_2).timestamp} ELSE {}
        notes == IF after_2 # <<>> THEN <<>> ELSE <<"max price #2 at end of window">>
    IN  [ filtered |-> filtered, series |-> built.series,
          buckets |-> built.buckets,
          candidates |-> CandidatesFrom(built.series, 2),
          confirmed |-> confirmed,
          out |->
            IF confirmed = <<>>
            THEN MicroHighResult({}, {}, {}, {},
                    {max_price_2_candle.close}, {max_price_2_candle.timestamp},
                    lowest_after_2_close, lowest_after_2_time,
                    Append(notes, "no confirmed micro highs"))
            ELSE MicroHighResult(
                    {max_pullback[1].micro_high_close}, {max_pullback[1].micro_high_time},
                    max_pullback[1].pullback_low_close, max_pullback[1].pullback_low_time,
                    {max_price_2_candle.close}, {max_price_2_candle.timestamp},
                    lowest_after_2_close, lowest_after_2_time, notes) ]

\* max_price_2_candle and after_2, then the report
GlobalPass(filtered, built, confirmed, max_price_2_candle) ==
    Report(filtered, built, confirmed, max_price_2_candle,
           SelectSeq(filtered, LAMBDA c : c.timestamp > max_price_2_candle.timestamp),
           IF confirmed = <<>> THEN <<>> ELSE <<FirstMaxPullback(confirmed)>>)

\* series, buckets and confirmed of a window that is not empty
DetectorPass(filtered, built, window_end, lookahead_bars, min_pullback_pct) ==
    GlobalPass(filtered, built,
               ConfirmedMicroHighs(built.series, built.buckets, filtered, window_end,
                                   lookahead_bars, min_pullback_pct),
               FirstMaxClose(filtered))

\* compute_micro_highs once the window's candles are filtered and sorted
AnalyseWindow(filtered, window_end, lookahead_bars, min_pullback_pct) ==
    IF filtered = <<>>
    THEN [ filtered |-> <<>>, series |-> <<>>, buckets |-> <<>>,
           candidates |-> <<>>, confirmed |-> <<>>,
           out |-> MicroHighResult({}, {}, {}, {}, {}, {}, {}, {},
                                   <<"no candles in window">>) ]
    ELSE DetectorPass(filtered, Build3mSeries(filtered), window_end,
                      lookahead_bars, min_pullback_pct)

\* a bug: the window is not applied
InWindow_Unfiltered(candles, window_start, window_end) == candles

\* a bug: the candle at exactly window_end is left out
InWindow_EndExcluded(candles, window_start, window_end) ==
    SelectSeq(candles, LAMBDA c :
        window_start <= c.timestamp /\ c.timestamp < window_end)

\* the candles of the window: window_start <= timestamp <= window_end
InWindow(candles, window_start, window_end) ==
    SelectSeq(candles, LAMBDA c :
        window_start <= c.timestamp /\ c.timestamp <= window_end)

\* compute_micro_highs: the result, with the intermediate values it was made of
ComputeMicroHighs(candles, window_start, window_end, lookahead_bars, min_pullback_pct) ==
    AnalyseWindow(SortByTimestamp(InWindow(candles, window_start, window_end)),
                  window_end, lookahead_bars, min_pullback_pct)

\* compute_micro_highs is called with these arguments
EnterMicro(candles, window_start, window_end, lookahead_bars, min_pullback_pct) ==
    [ candles |-> candles, window_start |-> window_start, window_end |-> window_end,
      lookahead_bars |-> lookahead_bars, min_pullback_pct |-> min_pullback_pct,
      pc |-> "call",
      filtered |-> <<>>, series |-> <<>>, buckets |-> <<>>,
      candidates |-> <<>>, confirmed |-> <<>>,
      out |-> MicroHighResult({}, {}, {}, {}, {}, {}, {}, {}, <<>>) ]

\* no call of compute_micro_highs is running
NoMicro == [EnterMicro(<<>>, 0, 0, 0, 0) EXCEPT !.pc = "idle"]

\* the call m after compute_micro_highs has returned r
ReturnMicro(m, r) ==
    [m EXCEPT !.pc = "done", !.filtered = r.filtered, !.series = r.series,
              !.buckets = r.buckets, !.candidates = r.candidates,
              !.confirmed = r.confirmed, !.out = r.out]

\* compute_micro_highs runs to its return
ComputeMicro ==
    /\ micro.pc = "call"
    /\ micro' = ReturnMicro(micro,
                    ComputeMicroHighs(micro.candles, micro.window_start,
                                      micro.window_end, micro.lookahead_bars,
                                      micro.min_pullback_pct))
    /\ UNCHANGED <<search, resolve, produced, highlow, bucketing, client, announce>>

----------------------------------------------------------------------------
(* launch_highlow: _build_3m_series, compute_launch_highlow                *)

\* launch_highlow._build_3m_series: the buckets in the order of their start,
\* each with its candles sorted by timestamp and the close of the last one
CandleBucketsOf(order, buckets) ==
    [i \in 1..Len(order) |->
        [start_time |-> order[i],
         candles |-> SortByTimestamp(buckets[order[i]]),
         close |-> Last(SortByTimestamp(buckets[order[i]])).close]]

CandleBucketSeries(buckets) == CandleBucketsOf(SortedKeys(DOMAIN buckets), buckets)

LaunchBuild3mSeries(candles) == CandleBucketSeries(BucketsOf(candles))

\* a bug: the lowest candle after the high, whatever its bucket
DipAfterHigh_LowestCandle(after_high_candles) ==
    IF after_high_candles = <<>> THEN {}
    ELSE {FirstMinClose(after_high_candles)}

\* pullback #1: the lowest candle of the bucket of the lowest close among the
\* buckets built from the candles after the high; None when there is none
DipAfterHigh(after_high_candles) ==
    IF after_high_candles = <<>> THEN {}
    ELSE {FirstMinClose(FirstMinClose(LaunchBuild3mSeries(after_high_candles)).candles)}

\* pullback #2: the highest candle of the bucket of the highest close among
\* the buckets built from the candles after the low; None when there is none
BounceAfterLow(after_low_candles) ==
    IF after_low_candles = <<>> THEN {}
    ELSE {FirstMaxClose(FirstMaxClose(LaunchBuild3mSeries(after_low_candles)).candles)}

\* the closes and the timestamps of the Optional candles high, p1, low, p2
LaunchHighLowResult(high, p1, low, p2) ==
    [ highest_close |-> {c.close : c \in high},
      highest_time |-> {c.timestamp : c \in high},
      pullback_1_close |-> {c.close : c \in p1},
      pullback_1_time |-> {c.timestamp : c \in p1},
      lowest_close |-> {c.close : c \in low},
      lowest_time |-> {c.timestamp : c \in low},
      pullback_2_close |-> {c.close : c \in p2},
      pullback_2_time |-> {c.timestamp : c \in p2} ]

\* the four steps of compute_launch_highlow, given high_candle and low_candle
HighLowReport(window_candles, high_candle, low_candle) ==
    [ window_candles |-> window_candles,
      out |-> LaunchHighLowResult(
                {high_candle},
                DipAfterHigh(SelectSeq(window_candles,
                    LAMBDA c : c.timestamp > high_candle.timestamp)),
                {low_candle},
                BounceAfterLow(SelectSeq(window_candles,
                    LAMBDA c : c.timestamp > low_candle.timestamp))) ]

\* compute_launch_highlow once the window's candles are filtered and sorted
HighLowOfWindow(window_candles) ==
    IF window_candles = <<>>
    THEN [ window_candles |-> <<>>, out |-> LaunchHighLowResult({}, {}, {}, {}) ]
    ELSE HighLowReport(window_candles, FirstMaxClose(window_candles),
                       FirstMinClose(window_candles))

\* a bug: the window is not applied
AfterLaunch_Unfiltered(candles, launch_time) == candles

\* a bug: the older window, 90 minutes from the launch on, both ends included
AfterLaunch_NinetyInclusive(candles, launch_time) ==
    SelectSeq(candles, LAMBDA c :
        launch_time <= c.timestamp /\ c.timestamp <= launch_time + 90 * 60)

\* the candles with launch_time < timestamp <= launch_time + 120 minutes
AfterLaunch(candles, launch_time) ==
    SelectSeq(candles, LAMBDA c :
        launch_time < c.timestamp /\ c.timestamp <= launch_time + 120 * 60)

ComputeLaunchHighLow(candles, launch_time) ==
    HighLowOfWindow(SortByTimestamp(AfterLaunch(candles, launch_time)))

\* compute_launch_highlow is called with these arguments
EnterHighLow(candles, launch_time) ==
    [ candles |-> candles, launch_time |-> launch_time, pc |-> "call",
      window_candles |-> <<>>, out |-> LaunchHighLowResult({}, {}, {}, {}) ]

\* no call of compute_launch_highlow is running
NoHighLow == [EnterHighLow(<<>>, 0) EXCEPT !.pc = "idle"]

\* the call h after compute_launch_highlow has returned r
ReturnHighLow(h, r) ==
    [h EXCEPT !.pc = "done", !.window_candles = r.window_candles, !.out = r.out]

\* compute_launch_highlow runs to its return
ComputeHighLow ==
    /\ highlow.pc = "call"
    /\ highlow' = ReturnHighLow(highlow,
                      ComputeLaunchHighLow(highlow.candles, highlow.launch_time))
    /\ UNCHANGED <<search, resolve, produced, micro, bucketing, client, announce>>

----------------------------------------------------------------------------
(* _build_3m_series called on its own, on a list and on a permutation of it *)

\* what both versions of _build_3m_series return for candles
BothSeries(candles) ==
    [ micro |-> Build3mSeries(candles), launch |-> LaunchBuild3mSeries(candles) ]

\* nothing returned yet
NotBuilt == [ micro |-> [series |-> <<>>, buckets |-> <<>>], launch |-> <<>> ]

EnterBucketing(candles, permuted) ==
    [ candles |-> candles, permuted |-> permuted, pc |-> "call",
      built |-> NotBuilt, builtPermuted |-> NotBuilt ]

\* no call of _build_3m_series on its own is running
NoBucketing == [EnterBucketing(<<>>, <<>>) EXCEPT !.pc = "idle"]

\* _build_3m_series runs on the list
BuildSeries ==
    /\ bucketing.pc = "call"
    /\ bucketing' = [bucketing EXCEPT !.pc = "built",
                                      !.built = BothSeries(bucketing.candles)]
    /\ UNCHANGED <<search, resolve, produced, micro, highlow, client, announce>>

\* _build_3m_series runs on the permutation
BuildPermutedSeries ==
    /\ bucketing.pc = "built"
    /\ bucketing' = [bucketing EXCEPT !.pc = "done",
                                      !.builtPermuted = BothSeries(bucketing.permuted)]
    /\ UNCHANGED <<search, resolve, produced, micro, highlow, client, announce>>

----------------------------------------------------------------------------
(* MexcFuturesClient (mexc.py): fetch_klines, _time_units_to_try and        *)
(* _parse_kline_payload.  A raw timestamp is counted in thousands (the raw  *)
(* value 1700000000 is written 1700000, the raw value 1700000000000 is      *)
(* written 1700000000), a candle's time in seconds.  An item of a payload   *)
(* is a record of what int(...) and float(...) make of its timestamp and    *)
(* its close, the empty set where the conversion raises IndexError,         *)
(* ValueError or TypeError.                                                 *)

\* 10_000_000_000: a raw timestamp below it is in seconds
SecondsBelow == 10000000

\* datetime.fromtimestamp(ts_val / 1000) of the raw timestamp
CandleTime(ts) == IF ts < SecondsBelow THEN ts * 1000 ELSE ts

\* the try block of the loops: the candles appended, in payload order
RECURSIVE AppendedCandles(_)
AppendedCandles(items) ==
    IF items = <<>> THEN <<>>
    ELSE LET item == Head(items)
         IN  IF item.ts = {} \/ item.close = {}
             THEN AppendedCandles(Tail(items))
             ELSE <<[ timestamp |-> CandleTime(CHOOSE t \in item.ts : TRUE),
                      close |-> CHOOSE c \in item.close : TRUE ]>>
                  \o AppendedCandles(Tail(items))

\* _parse_kline_payload: a payload of "time" and "close" arrays or a list of
\* rows gives its candles sorted by timestamp, any other payload no candle
ParseKlinePayload(data) ==
    IF data.form \in {"dict", "list"}
    THEN SortByTimestamp(AppendedCandles(data.items))
    ELSE <<>>

\* a bug: both units are tried whatever was detected
TimeUnitsToTry_AlwaysBoth(use_ms) == <<FALSE, TRUE>>

\* _time_units_to_try
TimeUnitsToTry(use_ms) ==
    IF use_ms = {} THEN <<FALSE, TRUE>> ELSE <<CHOOSE u \in use_ms : TRUE>>

NoData == [form |-> "none", items |-> <<>>]

\* MexcFuturesClient.__init__
NewClient ==
    [ use_ms |-> {}, pc |-> "idle", units |-> <<>>, requests |-> <<>>,
      data |-> NoData, candles |-> <<>>, returned |-> {}, raised |-> FALSE,
      use_ms_at_call |-> {} ]

\* no client is in use
NoClient == [NewClient EXCEPT !.pc = "none"]

\* fetch_klines is called: the units its loop goes through
CallFetchKlines ==
    /\ client.pc = "idle"
    /\ client' = [NewClient EXCEPT !.use_ms = client.use_ms,
                                   !.pc = "loop",
                                   !.units = TimeUnitsToTry(client.use_ms),
                                   !.use_ms_at_call = client.use_ms]
    /\ UNCHANGED <<search, resolve, produced, micro, highlow, bucketing, announce>>

\* one pass of the loop of fetch_klines over a response: the error of
\* raise_for_status propagates, candles are returned and their unit kept,
\* an empty result goes on to the next unit and returns [] after the last
RequestKlines(response) ==
    LET use_ms == Head(client.units)
        requests == Append(client.requests, use_ms)
        candles == ParseKlinePayload(response.data)
    IN  IF response.status = "error"
        THEN [client EXCEPT !.pc = "idle", !.requests = requests,
                            !.data = NoData, !.candles = <<>>, !.raised = TRUE]
        ELSE IF candles # <<>>
        THEN [client EXCEPT !.pc = "idle", !.requests = requests,
                            !.data = response.data, !.candles = candles,
                            !.use_ms = {use_ms}, !.returned = {candles}]
        ELSE IF Tail(client.units) # <<>>
        THEN [client EXCEPT !.units = Tail(client.units), !.requests = requests,
                            !.data = response.data, !.candles = candles]
        ELSE [client EXCEPT !.pc = "idle", !.units = <<>>, !.requests = requests,
                            !.data = response.data, !.candles = candles,
                            !.returned = {<<>>}]

\* the raw timestamps of the payloads: two in seconds, and the first of them
\* in milliseconds
RawTimeChoices == {1700000, 1700001, 1700000000}

\* the items of the payloads: three that parse, one whose timestamp and one
\* whose close do not
ItemChoices ==
    { [ts |-> {1700001}, close |-> {2}],
      [ts |-> {1700000}, close |-> {1}],
      [ts |-> {1700000000}, close |-> {2}],
      [ts |-> {}, close |-> {1}],
      [ts |-> {1700001}, close |-> {}] }

\* what the venue can answer: an HTTP error, a payload of arrays or of rows
\* with any items in any order, or a payload that is neither
Responses ==
    { [status |-> "error", data |-> NoData],
      [status |-> "ok", data |-> [form |-> "other", items |-> <<>>]] }
    \cup { [status |-> "ok", data |-> [form |-> f, items |-> items]] :
             f \in {"dict", "list"},
             items \in UNION { [1..n -> ItemChoices] : n \in 0..MaxItems } }

\* the loop of fetch_klines issues its next request and reads the response
Request ==
    /\ client.pc = "loop"
    /\ \E response \in Responses : client' = RequestKlines(response)
    /\ UNCHANGED <<search, resolve, produced, micro, highlow, bucketing, announce>>

----------------------------------------------------------------------------
(* The announcement loop of main (main.py): days_window starts at --days    *)
(* and doubles, capped at max_days, until a pass produces rows or the cap   *)
(* is reached.                                                              *)

Max2(a, b) == IF a >= b THEN a ELSE b

\* days_window = min(days_window * 2, max_days)
NextDaysWindow(days_window, max_days) == Min2(days_window * 2, max_days)

\* main up to its loop, called with --days
EnterMain(days) ==
    [ days |-> days, max_days |-> Max2(days, 120), days_window |-> days,
      pc |-> "loop", rows |-> FALSE, passes |-> 0 ]

\* main is not running
NoAnnounce == [EnterMain(0) EXCEPT !.pc = "none"]

\* one pass of the loop: announcements are fetched and processed into rows
\* or into none, and the loop is left or goes on with a larger window
AnnouncementPass ==
    /\ announce.pc = "loop"
    /\ announce.passes < MaxPasses
    /\ \E rows \in BOOLEAN :
          announce' =
            IF rows \/ announce.days_window >= announce.max_days
            THEN [announce EXCEPT !.pc = "exit", !.rows = rows,
                                  !.passes = announce.passes + 1]
            ELSE [announce EXCEPT !.rows = rows,
                                  !.passes = announce.passes + 1,
                                  !.days_window = NextDaysWindow(announce.days_window,
                                                                 announce.max_days)]
    /\ UNCHANGED <<search, resolve, produced, micro, highlow, bucketing, client>>

----------------------------------------------------------------------------
(* Specification of one call of find_first_trade_time, for every choice of *)
(* arguments and source.                                                   *)

AnchorChoices == {0, 12345678}
IntervalChoices == {0, 60 * 1000}
LimitChoices == {0, 30, 200, 1000}
LookaheadChoices == {0, 90 * 60 * 1000, 5 * HourMs, MaxLookaheadHours * HourMs}

Sources(start, interval, lookahead) ==
    { [mode |-> "free", held |-> {}] }
    \cup { [mode |-> "exact", held |-> H] :
             H \in SmallSubsets(HeldUniverse(start, interval, lookahead), MaxHeld) }

Init ==
    \E start \in AnchorChoices, interval \in IntervalChoices,
       lookahead \in LookaheadChoices, lim \in LimitChoices :
       \E src \in Sources(start, interval, lookahead) :
          /\ search = EnterSearch(start, interval, lookahead, lim, src)
          /\ resolve = NoCall
          /\ produced = NothingProduced
          /\ micro = NoMicro
          /\ highlow = NoHighLow
          /\ bucketing = NoBucketing
          /\ client = NoClient
          /\ announce = NoAnnounce

Next == Probe \/ ExitLoop

Spec == Init /\ [][Next]_vars

----------------------------------------------------------------------------
(* Specification of a run that calls resolve_launch_time, one call after   *)
(* the other, for any venue name, ticker and search start.                 *)

InitResolve ==
    /\ search = NoSearch
    /\ resolve = NoCall
    /\ produced = NothingProduced
    /\ micro = NoMicro
    /\ highlow = NoHighLow
    /\ bucketing = NoBucketing
    /\ client = NoClient
    /\ announce = NoAnnounce

NextResolve ==
    \/ \E v \in VenueNames, t \in Tickers, sst \in StartTimeChoices : CallResolve(v, t, sst)
    \/ VenueProbe
    \/ VenueExitLoop
    \/ SearchReturns
    \/ SearchRaises
    \/ SimpleAttempt

SpecResolve == InitResolve /\ [][NextResolve]_vars

----------------------------------------------------------------------------
(* Specification of one call of compute_micro_highs, for every candle list *)
(* made of up to MaxBuckets consecutive 3-minute buckets, handed over in   *)
(* ascending or descending order.                                          *)

\* the candles of one bucket, as offsets in seconds from the bucket's start
BucketShapes ==
    { << [offset |-> 90, close |-> 2] >>,
      << [offset |-> 90, close |-> 3] >>,
      << [offset |-> 90, close |-> 4] >>,
      << [offset |-> 0, close |-> 4], [offset |-> 120, close |-> 3] >>,
      << [offset |-> 0, close |-> 2], [offset |-> 120, close |-> 4] >> }

\* the first bucket starts at minute 54, so that the buckets cross the hour
BaseTs == 54 * 60

RECURSIVE CandlesOf(_, _)
CandlesOf(shapes, b) ==
    IF b > Len(shapes) THEN <<>>
    ELSE [i \in 1..Len(shapes[b]) |->
            [timestamp |-> BaseTs + (b - 1) * 180 + shapes[b][i].offset,
             close |-> shapes[b][i].close]]
         \o CandlesOf(shapes, b + 1)

Reverse(seq) == [i \in 1..Len(seq) |-> seq[Len(seq) + 1 - i]]

CandleLists ==
    UNION { { CandlesOf(shapes, 1) : shapes \in [1..n -> BucketShapes] } :
              n \in 0..MaxBuckets }

LookaheadBarsChoices == {1, 3}
MinPullbackPctChoices == {0, 25}

InitMicro ==
    /\ search = NoSearch
    /\ resolve = NoCall
    /\ produced = NothingProduced
    /\ highlow = NoHighLow
    /\ bucketing = NoBucketing
    /\ client = NoClient
    /\ announce = NoAnnounce
    /\ \E candles \in CandleLists, descending \in BOOLEAN,
          lookahead_bars \in LookaheadBarsChoices,
          min_pullback_pct \in MinPullbackPctChoices :
          micro = EnterMicro(IF descending THEN Reverse(candles) ELSE candles,
                             BaseTs, BaseTs + 60 * 60,
                             lookahead_bars, min_pullback_pct)

NextMicro == ComputeMicro

SpecMicro == InitMicro /\ [][NextMicro]_vars

----------------------------------------------------------------------------
(* Specification of one call of compute_micro_highs with a window that     *)
(* leaves candles out, ends on a candle, or holds none of them.            *)

\* window_start and window_end: the whole list; a window that ends on the
\* candle in the middle of the third bucket; one that starts with the second
\* bucket and ends at the start of the fourth; one before every candle
WindowChoices ==
    { <<BaseTs, BaseTs + 60 * 60>>,
      <<BaseTs, BaseTs + 2 * 180 + 90>>,
      <<BaseTs + 180, BaseTs + 3 * 180>>,
      <<BaseTs - 10 * 60, BaseTs - 60>> }

\* min_pullback_pct: float = 0.0
DefaultMinPullbackPct == 0

InitMicroWindow ==
    /\ search = NoSearch
    /\ resolve = NoCall
    /\ produced = NothingProduced
    /\ highlow = NoHighLow
    /\ bucketing = NoBucketing
    /\ client = NoClient
    /\ announce = NoAnnounce
    /\ \E candles \in CandleLists, descending \in BOOLEAN,
          window \in WindowChoices, lookahead_bars \in LookaheadBarsChoices :
          micro = EnterMicro(IF descending THEN Reverse(candles) ELSE candles,
                             window[1], window[2],
                             lookahead_bars, DefaultMinPullbackPct)

SpecMicroWindow == InitMicroWindow /\ [][NextMicro]_vars

----------------------------------------------------------------------------
(* Specification of one call of compute_micro_highs on one-minute candles  *)
(* with a window that ends exactly on the last candle, or after it.         *)

\* the candles of one bucket: one candle, or a candle of close 3 followed a
\* minute later by one of close 1, or the reverse
EdgeShapes ==
    { << [offset |-> 0, close |-> 1] >>,
      << [offset |-> 0, close |-> 2] >>,
      << [offset |-> 0, close |-> 3] >>,
      << [offset |-> 0, close |-> 3], [offset |-> 60, close |-> 1] >>,
      << [offset |-> 0, close |-> 1], [offset |-> 60, close |-> 3] >> }

EdgeCandleLists ==
    UNION { { CandlesOf(shapes, 1) : shapes \in [1..n -> EdgeShapes] } :
              n \in 1..MaxBuckets }

InitMicroEdge ==
    /\ search = NoSearch
    /\ resolve = NoCall
    /\ produced = NothingProduced
    /\ highlow = NoHighLow
    /\ bucketing = NoBucketing
    /\ client = NoClient
    /\ announce = NoAnnounce
    /\ \E candles \in EdgeCandleLists, on_last \in BOOLEAN,
          lookahead_bars \in LookaheadBarsChoices :
          micro = EnterMicro(candles, BaseTs,
                             IF on_last THEN Last(candles).timestamp
                             ELSE BaseTs + 60 * 60,
                             lookahead_bars, DefaultMinPullbackPct)

SpecMicroEdge == InitMicroEdge /\ [][NextMicro]_vars

----------------------------------------------------------------------------
(* Specification of the analysis of one listing: compute_micro_highs over  *)
(* the hour after the launch and compute_launch_highlow over the two hours *)
(* after it, on the same candles, in either order.                         *)

\* launch_time: before every candle; on the first bucket's candle; so early
\* that the window ends on the second bucket's candle; after every candle
LaunchTimeChoices ==
    { BaseTs - 60, BaseTs + 90, BaseTs + 180 + 90 - 120 * 60, BaseTs + 60 * 60 }

\* lookahead_bars: int = 4
DefaultLookaheadBars == 4

\* the candle lists of fewer than MaxBuckets buckets
ShortCandleLists ==
    UNION { { CandlesOf(shapes, 1) : shapes \in [1..n -> BucketShapes] } :
              n \in 0..(MaxBuckets - 1) }

InitAnalysis ==
    /\ search = NoSearch
    /\ resolve = NoCall
    /\ produced = NothingProduced
    /\ bucketing = NoBucketing
    /\ client = NoClient
    /\ announce = NoAnnounce
    /\ \E candles \in ShortCandleLists, descending \in BOOLEAN,
          launch_time \in LaunchTimeChoices :
          /\ micro = EnterMicro(IF descending THEN Reverse(candles) ELSE candles,
                                launch_time, launch_time + 60 * 60,
                                DefaultLookaheadBars, DefaultMinPullbackPct)
          /\ highlow = EnterHighLow(IF descending THEN Reverse(candles) ELSE candles,
                                    launch_time)

NextAnalysis == ComputeMicro \/ ComputeHighLow

SpecAnalysis == InitAnalysis /\ [][NextAnalysis]_vars

----------------------------------------------------------------------------
(* Specification of _build_3m_series on every list of up to MaxCandles     *)
(* candles, in any order, and on every permutation of it.                  *)

\* timestamps: 54:59 and 56:59 of the bucket of minute 54, 57:00 of the
\* bucket of minute 57, and 00:00 of the next hour
TimestampChoices == {BaseTs + 59, BaseTs + 179, BaseTs + 180, BaseTs + 360}

CloseChoices == {1, 2}

AnyCandles ==
    UNION { [1..n -> [timestamp : TimestampChoices, close : CloseChoices]] :
              n \in 0..MaxCandles }

\* the orders the elements of a list of n elements can be put in
Orders(n) == {f \in [1..n -> 1..n] : \A i, j \in 1..n : f[i] = f[j] => i = j}

InitBucketing ==
    /\ search = NoSearch
    /\ resolve = NoCall
    /\ produced = NothingProduced
    /\ micro = NoMicro
    /\ highlow = NoHighLow
    /\ \E candles \in AnyCandles :
          \E f \in Orders(Len(candles)) :
             bucketing = EnterBucketing(candles,
                            [i \in 1..Len(candles) |-> candles[f[i]]])
    /\ client = NoClient
    /\ announce = NoAnnounce

NextBucketing == BuildSeries \/ BuildPermutedSeries

SpecBucketing == InitBucketing /\ [][NextBucketing]_vars

----------------------------------------------------------------------------
(* Specification of a MexcFuturesClient over any sequence of fetch_klines   *)
(* calls, for every answer of the venue.                                    *)

InitMexc ==
    /\ search = NoSearch
    /\ resolve = NoCall
    /\ produced = NothingProduced
    /\ micro = NoMicro
    /\ highlow = NoHighLow
    /\ bucketing = NoBucketing
    /\ client = NewClient
    /\ announce = NoAnnounce

NextMexc == CallFetchKlines \/ Request

SpecMexc == InitMexc /\ [][NextMexc]_vars

----------------------------------------------------------------------------
(* Specification of the announcement loop of main, for every --days and     *)
(* every outcome of the passes.                                             *)

DaysChoices == (-3..8) \cup {30, 60, 119, 120, 121, 200}

InitMain ==
    /\ search = NoSearch
    /\ resolve = NoCall
    /\ produced = NothingProduced
    /\ micro = NoMicro
    /\ highlow = NoHighLow
    /\ bucketing = NoBucketing
    /\ client = NoClient
    /\ \E days \in DaysChoices : announce = EnterMain(days)

NextMain == AnnouncementPass

SpecMain == InitMain /\ [][NextMain]_vars

----------------------------------------------------------------------------
(* Properties of find_first_trade_time *)

SearchEnd == SearchEndMs(start_ts_ms, max_lookahead_ms)

HeldInLookahead == {t \in source.held : start_ts_ms <= t /\ t < SearchEnd}

HeldFromAnchor == {t \in source.held : t >= start_ts_ms}

\* the last probe returned a timestamp beyond its window_end + 2 * interval_ms
LastInsane ==
    /\ nprobes > 0
    /\ lastProbe.kind # "raise"
    /\ \E ts \in lastProbe.ts : ts > lastProbe.end + 2 * interval_ms

\* the timestamps of the last probe that are not below the anchor tolerance
LastKept == {ts \in lastProbe.ts : ~(ts < start_ts_ms - interval_ms)}

\* C1: with a source that answers every probe with exactly the timestamps it
\* holds in the probe's window, and holds one in [anchor, anchor + lookahead),
\* a search that returns yields the earliest held timestamp at or after the
\* anchor (neither an earlier nor a later one), never raises, and while it is
\* still looping no held timestamp at or after the anchor lies behind the cursor.
C1_ReturnsEarliest ==
    (source.mode = "exact" /\ HeldInLookahead # {}) =>
        /\ pc # "raised"
        /\ pc = "done" =>
              /\ Cardinality(result) = 1
              /\ \A dt \in result :
                    /\ DatetimeMs(dt) \in HeldFromAnchor
                    /\ \A t \in HeldFromAnchor : DatetimeMs(dt) <= t
                    /\ dt.usec \in 0..999999
        /\ pc = "loop" => \A t \in HeldFromAnchor : cursor_ms <= t

\* C1 witness: the first two windows were empty, the third held two
\* timestamps, and the earlier of them was returned.
C1_Witness ==
    /\ source.mode = "exact"
    /\ pc = "done"
    /\ exitKind = "found"
    /\ nprobes >= 2
    /\ Cardinality(lastProbe.ts) >= 2
    /\ \A dt \in result : DatetimeMs(dt) = SetMin(lastProbe.ts)

\* C2: with an exact source that holds nothing in [anchor, anchor + lookahead),
\* a search that returns has moved the cursor to search_end and returns None;
\* no launch time is ever reported.
C2_AbsentWhenNothingHeld ==
    (source.mode = "exact" /\ HeldInLookahead = {}) =>
        /\ result = {}
        /\ pc # "raised"
        /\ pc = "done" => (exitKind = "not_found" /\ cursor_ms = SearchEnd)

\* C2 witness: the source holds timestamps, all outside the lookahead range
\* (one exactly at search_end), several probes were made and None returned.
C2_Witness ==
    /\ source.mode = "exact"
    /\ SearchEnd \in source.held
    /\ HeldInLookahead = {}
    /\ pc = "done"
    /\ exitKind = "not_found"
    /\ nprobes >= 2

\* C3: when the last probe returned a timestamp greater than its
\* window_end + 2 * interval_ms, the search has returned None (so that no
\* further probe can follow), also when that answer held timestamps that pass
\* the anchor filter.
C3_SanityReturnsAbsent ==
    LastInsane => (pc = "done" /\ exitKind = "sanity" /\ result = {})

\* C3 witness: the insane answer also held a timestamp inside the window that
\* passes the anchor filter.
C3_Witness ==
    /\ LastInsane
    /\ \E ts \in lastProbe.ts :
          ts >= start_ts_ms /\ ts <= lastProbe.end /\ ts >= lastProbe.start
    /\ pc = "done"

\* C4: every loop iteration either returns or moves the cursor strictly
\* closer to search_end.
C4_EveryIterationProgresses ==
    [][(pc = "loop" /\ pc' = "loop" /\ nprobes' # nprobes)
          => (cursor_ms' > cursor_ms /\ cursor_ms' <= SearchEnd)]_vars

\* C5: while every probe has come back empty, and the initial window is not
\* zero, the number of calls to the source is at most
\* ceil(max_lookahead_ms / initial_window) + log2(max_window / initial_window)
\* (the logarithm rounded down, which only strengthens the bound).
C5_ProbeBound ==
    LET max_window     == MaxWindowMs(limit, interval_ms)
        initial_window == InitialWindowMs(limit, interval_ms)
    IN  (allEmpty /\ initial_window > 0) =>
            nprobes <= CeilDiv(max_lookahead_ms, initial_window)
                         + FloorLog2(max_window \div initial_window)

\* C5 witness: a search of empty probes whose window doubled ran to the end.
C5_Witness ==
    /\ allEmpty
    /\ exitKind = "not_found"
    /\ nprobes >= 4
    /\ window_ms > InitialWindowMs(limit, interval_ms)

\* C6: a probe on which the source raised is treated as an empty window: the
\* search is still in its loop, with the cursor at that window's end.
C6_ErrorTreatedAsEmpty ==
    (nprobes > 0 /\ lastProbe.kind = "raise") =>
        (pc = "loop" /\ cursor_ms = lastProbe.end)

\* C7: a timestamp of the last (sane) answer is dropped by the anchor filter
\* only if it is strictly less than anchor - interval_ms: when some timestamp
\* is not, the earliest of those is returned (one equal to anchor - interval_ms
\* or to the anchor included); when all are, the search goes on.
C7_AnchorTolerance ==
    (nprobes > 0 /\ lastProbe.kind # "raise" /\ ~LastInsane) =>
        IF LastKept # {}
        THEN /\ exitKind = "found"
             /\ Cardinality(result) = 1
             /\ \A dt \in result :
                   /\ DatetimeMs(dt) \in LastKept
                   /\ \A ts \in LastKept : DatetimeMs(dt) <= ts
        ELSE /\ exitKind \in {"running", "not_found"}
             /\ result = {}

\* C7 witness: the timestamp anchor - interval_ms, one interval before the
\* anchor, was returned as the launch time.
C7_Witness ==
    /\ interval_ms > 0
    /\ exitKind = "found"
    /\ lastProbe.ts = {start_ts_ms - interval_ms - 1, start_ts_ms - interval_ms}
    /\ \A dt \in result : DatetimeMs(dt) = start_ts_ms - interval_ms

----------------------------------------------------------------------------
(* Properties of resolve_launch_time *)

\* C8: no error leaves resolve_launch_time: a call never ends with an
\* exception in flight; when it has returned, its result is a launch time or
\* None; and for a venue name outside the seven supported ones it is None and
\* no request was issued.
C8_NeverPropagates ==
    /\ resolve.pc # "propagated"
    /\ resolve.pc = "returned" =>
          /\ Cardinality(resolve.launch_time) <= 1
          /\ \A dt \in resolve.launch_time : dt.sec >= resolve.start_ts - 61
          /\ resolve.source_exchange \notin
                {"Binance", "Bybit", "Gate", "Bitget", "KuCoin", "XT", "Kraken"}
                => (resolve.launch_time = {} /\ ~resolve.requested)

\* C8 witness: both market attempts of a call raised and the call returned None.
C8_Witness ==
    /\ resolve.pc = "returned"
    /\ resolve.raises = 2
    /\ resolve.requested
    /\ resolve.source_exchange \in SearchVenues
    /\ search.nprobes >= 2
    /\ resolve.launch_time = {}

\* C9: when resolve_launch_time returns for a (venue, ticker) that already got
\* a launch time earlier in the run, it returns that same launch time and has
\* issued no request.
C9_CachedPerKey ==
    (resolve.pc = "returned" /\ resolve.hadBefore # {}) =>
        (resolve.launch_time = resolve.hadBefore /\ ~resolve.requested)

----------------------------------------------------------------------------
(* Properties of the micro-high detector *)

\* the index idx of the series is a candidate local high with a bucket among
\* the next lookahead_bars whose close is below close * (1 - min_pullback_pct)
Qualifies(idx) ==
    LET s == micro.series
    IN  /\ idx > 1
        /\ idx < Len(s)
        /\ s[idx].close3 > s[idx - 1].close3
        /\ s[idx].close3 >= s[idx + 1].close3
        /\ \E j \in (idx + 1)..(idx + micro.lookahead_bars) :
              /\ j <= Len(s)
              /\ s[j].close3 * 100 < s[idx].close3 * (100 - micro.min_pullback_pct)

\* C10: the highs _confirmed_micro_highs returns are exactly the candidate
\* buckets with a qualifying bucket among the next lookahead_bars: every
\* returned high is such a bucket (so testing it again confirms it again),
\* every such bucket is returned, and none is returned twice.
C10_ExactlyConfirmed ==
    micro.pc = "done" =>
        LET s == micro.series
            confirmed == micro.confirmed
        IN  /\ \A k \in 1..Len(confirmed) :
                  \E idx \in 1..Len(s) :
                     /\ s[idx].bucket_start = confirmed[k].bucket_start
                     /\ s[idx].close3 = confirmed[k].close3
                     /\ Qualifies(idx)
            /\ \A idx \in 1..Len(s) :
                  Qualifies(idx) =>
                     \E k \in 1..Len(confirmed) :
                        confirmed[k].bucket_start = s[idx].bucket_start
            /\ \A k, l \in 1..Len(confirmed) :
                  confirmed[k].bucket_start = confirmed[l].bucket_start => k = l

\* C10 witness: of two candidate local highs the later one was confirmed, with
\* a positive min_pullback_pct, and the earlier one, whose lookahead does not
\* fall to the threshold, was not.
C10_Witness ==
    /\ micro.pc = "done"
    /\ Len(micro.confirmed) = 1
    /\ micro.min_pullback_pct > 0
    /\ \E idx \in 2..(Len(micro.series) - 1) :
          /\ Qualifies(idx)
          /\ micro.confirmed[1].bucket_start = micro.series[idx].bucket_start
          /\ \E earlier \in 2..(idx - 1) :
                /\ IsLocalHigh(micro.series, earlier)
                /\ ~Qualifies(earlier)

\* the bucket starts of a sequence of buckets or of starts
Starts(seq) == {seq[k] : k \in 1..Len(seq)}

\* C11: a bucket of the 3-minute series is a candidate local high if and only
\* if it is neither the first nor the last bucket, its close is greater than
\* the previous bucket's and not less than the next bucket's; and only
\* candidates are confirmed.
C11_CandidateIffLocalHigh ==
    micro.pc = "done" =>
        LET s == micro.series
        IN  /\ \A i \in 1..Len(s) :
                  (s[i].bucket_start \in Starts(micro.candidates))
                  <=> /\ 1 < i
                      /\ i < Len(s)
                      /\ s[i].close3 > s[i - 1].close3
                      /\ s[i].close3 >= s[i + 1].close3
            /\ \A k \in 1..Len(micro.confirmed) :
                  micro.confirmed[k].bucket_start \in Starts(micro.candidates)

\* C11 witness: a bucket tied with the next one is a candidate and confirmed,
\* and a bucket tied with the previous one, not below the next, is no candidate.
C11_Witness ==
    /\ micro.pc = "done"
    /\ \E i \in 2..(Len(micro.series) - 1) :
          /\ micro.series[i].close3 = micro.series[i + 1].close3
          /\ micro.series[i].bucket_start \in Starts(micro.candidates)
          /\ \E k \in 1..Len(micro.confirmed) :
                micro.confirmed[k].bucket_start = micro.series[i].bucket_start
    /\ \E j \in 2..(Len(micro.series) - 1) :
          /\ micro.series[j].close3 = micro.series[j - 1].close3
          /\ micro.series[j].close3 > micro.series[j + 1].close3
          /\ micro.series[j].bucket_start \notin Starts(micro.candidates)

\* C12: the micro_high_time of every confirmed high is the timestamp of a
\* candle of the high's bucket whose close, reported as micro_high_close, is
\* the greatest close of the bucket's candles, and it lies in
\* [bucket_start, bucket_start + 3 minutes).
C12_DrillDownToMaxCandle ==
    micro.pc = "done" =>
        \A k \in 1..Len(micro.confirmed) :
            LET high == micro.confirmed[k]
                bucket_candles == micro.buckets[high.bucket_start]
            IN  /\ \E i \in 1..Len(bucket_candles) :
                      /\ bucket_candles[i].timestamp = high.micro_high_time
                      /\ bucket_candles[i].close = high.micro_high_close
                      /\ \A j \in 1..Len(bucket_candles) :
                            bucket_candles[j].close <= high.micro_high_close
                /\ high.bucket_start <= high.micro_high_time
                /\ high.micro_high_time < high.bucket_start + 3 * 60

\* C12 witness: a confirmed high whose bucket closes below its greatest close,
\* in a bucket that starts in the hour after the window's first bucket.
C12_Witness ==
    /\ micro.pc = "done"
    /\ \E k \in 1..Len(micro.confirmed) :
          /\ micro.confirmed[k].micro_high_close > micro.confirmed[k].close3
          /\ micro.confirmed[k].bucket_start >= 60 * 60

\* the end of the interval searched for the pullback low of the k-th
\* confirmed high: the next confirmed high's bucket start, or the window end
PullbackBoundary(k) ==
    IF k < Len(micro.confirmed)
    THEN micro.confirmed[k + 1].bucket_start
    ELSE micro.window_end

\* the window candles from one minute after the k-th confirmed high up to,
\* and not including, its boundary
PullbackInterval(k) ==
    {i \in 1..Len(micro.filtered) :
        /\ micro.confirmed[k].micro_high_time + 60 <= micro.filtered[i].timestamp
        /\ micro.filtered[i].timestamp < PullbackBoundary(k)}

\* C13: the pullback low of every confirmed high is a candle of least close
\* among the window candles from one minute after micro_high_time up to, not
\* including, the next confirmed high's bucket start (the window end for the
\* last high); pullback_size is micro_high_close less its close; and the
\* pullback fields are absent exactly when that interval holds no candle,
\* in which case no window candle lies after the high and before the boundary.
C13_PullbackLowInInterval ==
    micro.pc = "done" =>
        \A k \in 1..Len(micro.confirmed) :
            LET high == micro.confirmed[k]
            IN  IF PullbackInterval(k) = {}
                THEN /\ high.pullback_low_close = {}
                     /\ high.pullback_low_time = {}
                     /\ high.pullback_size = {}
                     /\ high.pullback_pct = {}
                     /\ \A i \in 1..Len(micro.filtered) :
                           ~ /\ micro.filtered[i].timestamp > high.micro_high_time
                             /\ micro.filtered[i].timestamp < PullbackBoundary(k)
                ELSE /\ \E i \in PullbackInterval(k) :
                           /\ high.pullback_low_close = {micro.filtered[i].close}
                           /\ high.pullback_low_time = {micro.filtered[i].timestamp}
                           /\ high.pullback_size
                                 = {high.micro_high_close - micro.filtered[i].close}
                           /\ \A j \in PullbackInterval(k) :
                                 micro.filtered[i].close <= micro.filtered[j].close

\* C13 witness: two confirmed highs; the first one's pullback low is above the
\* close of a candle that sits exactly on the second one's bucket start.
C13_Witness ==
    /\ micro.pc = "done"
    /\ Len(micro.confirmed) >= 2
    /\ micro.confirmed[1].pullback_low_close # {}
    /\ \E i \in 1..Len(micro.filtered) :
          /\ micro.filtered[i].timestamp = micro.confirmed[2].bucket_start
          /\ \A low \in micro.confirmed[1].pullback_low_close :
                micro.filtered[i].close < low

\* the pullback_size of confirmed high a is less than that of b, an absent
\* size being less than every size
PullbackSizeLess(a, b) ==
    \/ a.pullback_size = {} /\ b.pullback_size # {}
    \/ \E x \in a.pullback_size : \E y \in b.pullback_size : x < y

\* C14: when a micro-high is confirmed, max_price_1 and lowest_after_1 are
\* the high and the pullback low of a confirmed high that no confirmed high
\* exceeds in pullback_size and that every earlier confirmed high falls short of.
C14_ReportsLargestPullback ==
    (micro.pc = "done" /\ micro.confirmed # <<>>) =>
        \E k \in 1..Len(micro.confirmed) :
            LET high == micro.confirmed[k]
            IN  /\ micro.out.max_price_1_close = {high.micro_high_close}
                /\ micro.out.max_price_1_time = {high.micro_high_time}
                /\ micro.out.lowest_after_1_close = high.pullback_low_close
                /\ micro.out.lowest_after_1_time = high.pullback_low_time
                /\ \A j \in 1..Len(micro.confirmed) :
                      ~PullbackSizeLess(high, micro.confirmed[j])
                /\ \A j \in 1..(k - 1) :
                      PullbackSizeLess(micro.confirmed[j], high)

\* C14 witness: two confirmed highs of equal pullback_size, the earlier reported.
C14_Witness ==
    /\ micro.pc = "done"
    /\ Len(micro.confirmed) = 2
    /\ micro.confirmed[1].pullback_size # {}
    /\ micro.confirmed[1].pullback_size = micro.confirmed[2].pullback_size
    /\ micro.out.max_price_1_time = {micro.confirmed[1].micro_high_time}

\* filtered holds the candles of the call with
\* window_start <= timestamp <= window_end, and no other
FilteredIsWindow ==
    /\ \A i \in 1..Len(micro.candles) :
          (/\ micro.window_start <= micro.candles[i].timestamp
           /\ micro.candles[i].timestamp <= micro.window_end)
          <=> \E j \in 1..Len(micro.filtered) : micro.filtered[j] = micro.candles[i]
    /\ \A j \in 1..Len(micro.filtered) :
          \E i \in 1..Len(micro.candles) : micro.candles[i] = micro.filtered[j]

\* the window candles later than the window candle i
LaterThan(i) ==
    {j \in 1..Len(micro.filtered) :
        micro.filtered[j].timestamp > micro.filtered[i].timestamp}

\* C15: for a window that is not empty, max_price_2 is a window candle of the
\* greatest close of the window and lowest_after_2 a candle of the least
\* close among the window candles strictly after it; lowest_after_2 is
\* absent, with the note "max price #2 at end of window", exactly when no
\* window candle is later than that candle.
C15_GlobalMaxThenMin ==
    (micro.pc = "done" /\ micro.filtered # <<>>) =>
        /\ FilteredIsWindow
        /\ \E i \in 1..Len(micro.filtered) :
              /\ micro.out.max_price_2_close = {micro.filtered[i].close}
              /\ micro.out.max_price_2_time = {micro.filtered[i].timestamp}
              /\ \A j \in 1..Len(micro.filtered) :
                    micro.filtered[j].close <= micro.filtered[i].close
              /\ IF LaterThan(i) = {}
                 THEN /\ micro.out.lowest_after_2_close = {}
                      /\ micro.out.lowest_after_2_time = {}
                      /\ "max price #2 at end of window" \in Starts(micro.out.notes)
                 ELSE /\ "max price #2 at end of window" \notin Starts(micro.out.notes)
                      /\ \E j \in LaterThan(i) :
                            /\ micro.out.lowest_after_2_close = {micro.filtered[j].close}
                            /\ micro.out.lowest_after_2_time = {micro.filtered[j].timestamp}
                            /\ \A l \in LaterThan(i) :
                                  micro.filtered[j].close <= micro.filtered[l].close

\* C15 witness: the window leaves out a candle of a greater close than the
\* reported max_price_2, and a lowest_after_2 is reported.
C15_Witness ==
    /\ micro.pc = "done"
    /\ micro.out.lowest_after_2_close # {}
    /\ \E i \in 1..Len(micro.candles) :
          /\ micro.candles[i].timestamp > micro.window_end
          /\ \A top \in micro.out.max_price_2_close : micro.candles[i].close > top

\* C17: when the window is not empty and no candidate local high has a
\* qualifying bucket in its lookahead, the result carries the note
\* "no confirmed micro highs", max_price_1 and lowest_after_1 (close and time)
\* are absent, and max_price_2 is still the greatest close of the window.
C17_NoConfirmedStillReportsMax ==
    (/\ micro.pc = "done"
     /\ micro.filtered # <<>>
     /\ \A idx \in 1..Len(micro.series) : ~Qualifies(idx)) =>
        /\ "no confirmed micro highs" \in Starts(micro.out.notes)
        /\ micro.out.max_price_1_close = {}
        /\ micro.out.max_price_1_time = {}
        /\ micro.out.lowest_after_1_close = {}
        /\ micro.out.lowest_after_1_time = {}
        /\ \E i \in 1..Len(micro.filtered) :
              /\ micro.out.max_price_2_close = {micro.filtered[i].close}
              /\ micro.out.max_price_2_time = {micro.filtered[i].timestamp}
              /\ \A j \in 1..Len(micro.filtered) :
                    micro.filtered[j].close <= micro.filtered[i].close

\* C17 witness: there is a candidate local high, none is confirmed, and the
\* result carries the note and a max_price_2.
C17_Witness ==
    /\ micro.pc = "done"
    /\ micro.candidates # <<>>
    /\ micro.confirmed = <<>>
    /\ "no confirmed micro highs" \in Starts(micro.out.notes)
    /\ micro.out.max_price_2_close # {}

\* the window candles of compute_launch_highlow later than window candle i
AfterCandle(i) ==
    {j \in 1..Len(highlow.window_candles) :
        highlow.window_candles[j].timestamp > highlow.window_candles[i].timestamp}

\* C16: for a window that is not empty, highest_close is the greatest and
\* lowest_close the least close of the window, pullback_1 is the least close
\* among the window candles after the highest-close candle, and pullback_2
\* the greatest close among the window candles after the lowest-close candle.
C16_HighLowAndPullbacks ==
    (highlow.pc = "done" /\ highlow.window_candles # <<>>) =>
        LET w == highlow.window_candles
            out == highlow.out
        IN  /\ \E i \in 1..Len(w) :
                  /\ out.highest_close = {w[i].close}
                  /\ out.highest_time = {w[i].timestamp}
                  /\ \A j \in 1..Len(w) : w[j].close <= w[i].close
                  /\ \A j \in AfterCandle(i) :
                        \E p \in out.pullback_1_close : p <= w[j].close
            /\ \E i \in 1..Len(w) :
                  /\ out.lowest_close = {w[i].close}
                  /\ out.lowest_time = {w[i].timestamp}
                  /\ \A j \in 1..Len(w) : w[j].close >= w[i].close
                  /\ \A j \in AfterCandle(i) :
                        \E p \in out.pullback_2_close : p >= w[j].close

\* no candle handed to compute_micro_highs lies in its window
NoCandleInMicroWindow ==
    \A i \in 1..Len(micro.candles) :
        ~ /\ micro.window_start <= micro.candles[i].timestamp
          /\ micro.candles[i].timestamp <= micro.window_end

\* no candle handed to compute_launch_highlow lies in its window
NoCandleAfterLaunch ==
    \A i \in 1..Len(highlow.candles) :
        ~ /\ highlow.launch_time < highlow.candles[i].timestamp
          /\ highlow.candles[i].timestamp <= highlow.launch_time + 120 * 60

\* C18: when no input candle lies in the window (an empty list included),
\* compute_micro_highs returns every extremum absent with the single note
\* "no candles in window" and compute_launch_highlow returns every field
\* absent; both calls return, neither ends in an error.
C18_EmptyWindowAllAbsent ==
    /\ micro.pc \in {"call", "done"}
    /\ highlow.pc \in {"call", "done"}
    /\ (micro.pc = "done" /\ NoCandleInMicroWindow) =>
          micro.out = MicroHighResult({}, {}, {}, {}, {}, {}, {}, {},
                                      <<"no candles in window">>)
    /\ (highlow.pc = "done" /\ NoCandleAfterLaunch) =>
          /\ highlow.out.highest_close = {}
          /\ highlow.out.highest_time = {}
          /\ highlow.out.pullback_1_close = {}
          /\ highlow.out.pullback_1_time = {}
          /\ highlow.out.lowest_close = {}
          /\ highlow.out.lowest_time = {}
          /\ highlow.out.pullback_2_close = {}
          /\ highlow.out.pullback_2_time = {}

\* C18 witness: both passes have returned for a list of candles that all lie
\* outside both windows.
C18_Witness ==
    /\ micro.pc = "done"
    /\ highlow.pc = "done"
    /\ micro.candles # <<>>
    /\ NoCandleInMicroWindow
    /\ NoCandleAfterLaunch
    /\ micro.out.notes = <<"no candles in window">>
    /\ highlow.out.highest_close = {}

\* the start of the 3-minute bucket of a timestamp in seconds
BucketKey(ts) == ts - (ts % (3 * 60))

\* the close of the latest of the window candles S of bucket k
BucketLastClose(S, k) ==
    LET w == highlow.window_candles
        last == CHOOSE j \in S :
                    /\ BucketKey(w[j].timestamp) = k
                    /\ \A l \in S : BucketKey(w[l].timestamp) = k
                                        => w[l].timestamp <= w[j].timestamp
    IN  w[last].close

\* the window candle j is a lowest candle of a bucket whose last close is
\* lowest among the buckets of the window candles S
LowestOfLowestBucket(S, j) ==
    LET w == highlow.window_candles
        k == BucketKey(w[j].timestamp)
    IN  /\ j \in S
        /\ \A l \in S : BucketLastClose(S, k)
                            <= BucketLastClose(S, BucketKey(w[l].timestamp))
        /\ \A l \in S : BucketKey(w[l].timestamp) = k => w[j].close <= w[l].close

\* the window candle j is a highest candle of a bucket whose last close is
\* highest among the buckets of the window candles S
HighestOfHighestBucket(S, j) ==
    LET w == highlow.window_candles
        k == BucketKey(w[j].timestamp)
    IN  /\ j \in S
        /\ \A l \in S : BucketLastClose(S, k)
                            >= BucketLastClose(S, BucketKey(w[l].timestamp))
        /\ \A l \in S : BucketKey(w[l].timestamp) = k => w[j].close >= w[l].close

\* C16 as amended: for a window that is not empty, highest_close is the
\* greatest and lowest_close the least close of the window; pullback_1 is the
\* least close within the 3-minute bucket whose last close is lowest among
\* the buckets of the window candles after the highest-close candle, and
\* pullback_2 the greatest close within the bucket whose last close is
\* highest among the buckets of the window candles after the lowest-close
\* candle; each is absent when no window candle is after that candle.
C16_BucketedPullbacks ==
    (highlow.pc = "done" /\ highlow.window_candles # <<>>) =>
        LET w == highlow.window_candles
            out == highlow.out
        IN  /\ \E i \in 1..Len(w) :
                  /\ out.highest_close = {w[i].close}
                  /\ out.highest_time = {w[i].timestamp}
                  /\ \A j \in 1..Len(w) : w[j].close <= w[i].close
                  /\ IF AfterCandle(i) = {}
                     THEN out.pullback_1_close = {} /\ out.pullback_1_time = {}
                     ELSE \E j \in AfterCandle(i) :
                            /\ LowestOfLowestBucket(AfterCandle(i), j)
                            /\ out.pullback_1_close = {w[j].close}
                            /\ out.pullback_1_time = {w[j].timestamp}
            /\ \E i \in 1..Len(w) :
                  /\ out.lowest_close = {w[i].close}
                  /\ out.lowest_time = {w[i].timestamp}
                  /\ \A j \in 1..Len(w) : w[j].close >= w[i].close
                  /\ IF AfterCandle(i) = {}
                     THEN out.pullback_2_close = {} /\ out.pullback_2_time = {}
                     ELSE \E j \in AfterCandle(i) :
                            /\ HighestOfHighestBucket(AfterCandle(i), j)
                            /\ out.pullback_2_close = {w[j].close}
                            /\ out.pullback_2_time = {w[j].timestamp}

\* C16 witness: a window candle after the highest-close candle closes below
\* the reported pullback_1.
C16_Witness ==
    /\ highlow.pc = "done"
    /\ highlow.out.pullback_1_close # {}
    /\ \E j \in 1..Len(highlow.window_candles) :
          /\ \A t \in highlow.out.highest_time :
                highlow.window_candles[j].timestamp > t
          /\ \A p \in highlow.out.pullback_1_close :
                highlow.window_candles[j].close < p

\* the candles of a list of candles that belong to the bucket starting at k
InBucket(candles, k) ==
    {i \in 1..Len(candles) : BucketKey(candles[i].timestamp) = k}

\* held is the candles of the list that belong to bucket k, each once, and
\* close is the close of one of the latest of them
IsBucketOf(candles, k, held, close) ==
    /\ Len(held) = Cardinality(InBucket(candles, k))
    /\ \A i \in InBucket(candles, k) : \E j \in 1..Len(held) : held[j] = candles[i]
    /\ \A j \in 1..Len(held) : BucketKey(held[j].timestamp) = k
    /\ \E j \in 1..Len(held) :
          /\ held[j].close = close
          /\ \A l \in 1..Len(held) : held[l].timestamp <= held[j].timestamp

\* C19: _build_3m_series (of micro_highs and of launch_highlow) puts every
\* candle in exactly one bucket, the one that starts at the candle's
\* timestamp floored to 3 minutes with the seconds zeroed; the close of each
\* bucket is the close of its latest candle; and the buckets come in
\* strictly ascending order of their start.
C19_BucketsFloorLastCloseAscending ==
    bucketing.pc \in {"built", "done"} =>
        LET candles == bucketing.candles
            series == bucketing.built.micro.series
            buckets == bucketing.built.micro.buckets
            launch == bucketing.built.launch
            keys == {BucketKey(candles[i].timestamp) : i \in 1..Len(candles)}
        IN  /\ DOMAIN buckets = keys
            /\ {series[j].bucket_start : j \in 1..Len(series)} = keys
            /\ {launch[j].start_time : j \in 1..Len(launch)} = keys
            /\ \A j \in 1..Len(series) :
                  IsBucketOf(candles, series[j].bucket_start,
                             buckets[series[j].bucket_start], series[j].close3)
            /\ \A j \in 1..Len(launch) :
                  IsBucketOf(candles, launch[j].start_time,
                             launch[j].candles, launch[j].close)
            /\ \A j \in 1..(Len(series) - 1) :
                  series[j].bucket_start < series[j + 1].bucket_start
            /\ \A j \in 1..(Len(launch) - 1) :
                  launch[j].start_time < launch[j + 1].start_time

\* C19 witness: a list given latest candle first: its last bucket starts with
\* the next hour, and a bucket of two candles closes at the close of the
\* later one, which the list gives first.
C19_Witness ==
    /\ bucketing.pc = "built"
    /\ Len(bucketing.candles) = 3
    /\ Len(bucketing.built.micro.series) = 2
    /\ bucketing.built.micro.series[2].bucket_start = 60 * 60
    /\ bucketing.candles[1].timestamp = 60 * 60
    /\ bucketing.candles[2].timestamp > bucketing.candles[3].timestamp
    /\ bucketing.candles[2].close # bucketing.candles[3].close
    /\ bucketing.built.micro.series[1].close3 = bucketing.candles[2].close
    /\ bucketing.built.launch[1].close = bucketing.candles[2].close

\* C20: for every candle list and every permutation of it, _build_3m_series
\* yields the same sequence of bucket starts and bucket closes.
C20_OrderIndependent ==
    bucketing.pc = "done" =>
        /\ bucketing.builtPermuted.micro.series = bucketing.built.micro.series
        /\ Len(bucketing.builtPermuted.launch) = Len(bucketing.built.launch)
        /\ \A j \in 1..Len(bucketing.built.launch) :
              /\ bucketing.builtPermuted.launch[j].start_time
                    = bucketing.built.launch[j].start_time
              /\ bucketing.builtPermuted.launch[j].close
                    = bucketing.built.launch[j].close

\* the candles handed to compute_launch_highlow that lie in
\* (launch_time, launch_time + 120 minutes]
LaunchWindow ==
    {i \in 1..Len(highlow.candles) :
        /\ highlow.launch_time < highlow.candles[i].timestamp
        /\ highlow.candles[i].timestamp <= highlow.launch_time + 120 * 60}

\* C21: compute_launch_highlow analyses exactly the candles with
\* launch_time < timestamp <= launch_time + 120 minutes: its window candles
\* are those and no other, highest_close and lowest_close are the extremes
\* of those candles, and every reported time lies in that interval.
C21_WindowAfterLaunch ==
    highlow.pc = "done" =>
        LET w == highlow.window_candles
            out == highlow.out
        IN  /\ Len(w) = Cardinality(LaunchWindow)
            /\ \A i \in LaunchWindow : \E j \in 1..Len(w) : w[j] = highlow.candles[i]
            /\ \A j \in 1..Len(w) : \E i \in LaunchWindow : highlow.candles[i] = w[j]
            /\ (LaunchWindow = {}) <=> (out.highest_close = {})
            /\ \A i \in LaunchWindow :
                  /\ \A h \in out.highest_close : highlow.candles[i].close <= h
                  /\ \A l \in out.lowest_close : highlow.candles[i].close >= l
            /\ \A t \in out.highest_time \cup out.lowest_time
                       \cup out.pullback_1_time \cup out.pullback_2_time :
                  /\ highlow.launch_time < t
                  /\ t <= highlow.launch_time + 120 * 60

\* C21 witness: the candle at exactly 120 minutes after launch is the reported
\* highest close, although a later candle closes higher.
C21_Witness ==
    /\ highlow.pc = "done"
    /\ highlow.out.highest_time = {highlow.launch_time + 120 * 60}
    /\ \E i \in 1..Len(highlow.candles) :
          /\ highlow.candles[i].timestamp > highlow.launch_time + 120 * 60
          /\ \A h \in highlow.out.highest_close : highlow.candles[i].close > h

\* the candles handed to compute_micro_highs that lie in
\* [window_start, window_end], in the order they were handed over
MicroWindowCandles ==
    SelectSeq(micro.candles, LAMBDA c :
        micro.window_start <= c.timestamp /\ c.timestamp <= micro.window_end)

\* the times compute_micro_highs reports
MicroReportedTimes ==
    micro.out.max_price_1_time \cup micro.out.lowest_after_1_time
        \cup micro.out.max_price_2_time \cup micro.out.lowest_after_2_time

\* C22: compute_micro_highs analyses exactly the candles with
\* window_start <= timestamp <= window_end: the candles it analyses are those
\* and no other, max_price_2 is the greatest close among them, every
\* reported time lies in the window, and the result is the one the same call
\* gives when the candles outside the window are taken away.
C22_WindowBothEndsIncluded ==
    micro.pc = "done" =>
        /\ Len(micro.filtered) = Len(MicroWindowCandles)
        /\ \A i \in 1..Len(MicroWindowCandles) :
              \E j \in 1..Len(micro.filtered) : micro.filtered[j] = MicroWindowCandles[i]
        /\ (MicroWindowCandles = <<>>) <=> (micro.out.max_price_2_close = {})
        /\ \A i \in 1..Len(MicroWindowCandles) :
              \A top \in micro.out.max_price_2_close : MicroWindowCandles[i].close <= top
        /\ \A t \in MicroReportedTimes :
              micro.window_start <= t /\ t <= micro.window_end
        /\ micro.out = ComputeMicroHighs(MicroWindowCandles, micro.window_start,
                            micro.window_end, micro.lookahead_bars,
                            micro.min_pullback_pct).out

\* C22 witness: the candle at exactly window_end is the reported global
\* maximum, although a candle after the window closes higher.
C22_Witness ==
    /\ micro.pc = "done"
    /\ micro.out.max_price_2_time = {micro.window_end}
    /\ \E i \in 1..Len(micro.candles) :
          /\ micro.candles[i].timestamp > micro.window_end
          /\ \A top \in micro.out.max_price_2_close : micro.candles[i].close > top

\* C23: every candle series _parse_kline_payload returns has strictly
\* increasing, hence unique, timestamps.
C23_StrictlyIncreasingTimestamps ==
    \A i \in 1..(Len(client.candles) - 1) :
        client.candles[i].timestamp < client.candles[i + 1].timestamp

\* a call of fetch_klines has ended, by a return or by an exception
FetchEnded == client.pc = "idle" /\ client.requests # <<>>

\* C30: _use_ms starts unset; it changes only at the return of a fetch_klines
\* call that returns at least one candle, and never once it is set; a call
\* that starts with it unset requests in seconds and, when that gives no
\* candle, in milliseconds; a call that starts with it set issues exactly
\* one request, in the detected unit.
C30_StickyTimeUnit ==
    /\ client.use_ms = {}
    /\ [][ /\ client.use_ms # {} => client'.use_ms = client.use_ms
           /\ client'.use_ms # client.use_ms =>
                 /\ client'.pc = "idle"
                 /\ client'.candles # <<>>
                 /\ client'.returned = {client'.candles}
                 /\ client'.use_ms = {Last(client'.requests)} ]_vars
    /\ [](FetchEnded =>
            IF client.use_ms_at_call = {}
            THEN \/ /\ client.requests = <<FALSE>>
                    /\ client.raised \/ client.candles # <<>>
                 \/ /\ client.requests = <<FALSE, TRUE>>
                    /\ client.use_ms \in {{}, {TRUE}}
            ELSE /\ client.requests = <<CHOOSE u \in client.use_ms_at_call : TRUE>>
                 /\ client.use_ms = client.use_ms_at_call)

\* C30 witness: a call made after milliseconds were detected ends with no
\* candle after one request in milliseconds, and the unit is kept.
C30_Witness ==
    /\ FetchEnded
    /\ client.use_ms_at_call = {TRUE}
    /\ client.requests = <<TRUE>>
    /\ client.returned = {<<>>}
    /\ client.use_ms = {TRUE}

\* C29: in the announcement loop of main days_window never exceeds
\* max(days, 120), the loop is left exactly by a pass that produced a row or
\* ran with days_window at the cap, and every pass after which the loop goes
\* on has strictly enlarged days_window, so that the loop terminates.
C29_WindowStrictlyGrows ==
    /\ [](announce.pc # "none" => announce.days_window <= Max2(announce.days, 120))
    /\ [][ /\ announce'.pc = "exit" <=>
                (announce'.rows \/ announce.days_window >= Max2(announce.days, 120))
           /\ announce'.pc = "loop" => announce'.days_window > announce.days_window ]_vars

\* max_window as the specification gives it: min(16h, limit * interval_ms)
StatedMaxWindow == Min2(16 * HourMs, limit * interval_ms)

\* C24: the probes of find_first_trade_time tile the search range: the first
\* starts at the anchor, every later one where the one before it ended, each
\* ends at or before search_end and is no longer than the window of its
\* iteration; the window starts at min(2h, max_window), is
\* min(2 * window, max_window) after every probe the loop goes on from, and
\* never exceeds max_window = min(16h, limit * interval_ms).
C24_ProbesTileSearchRange ==
    /\ cursor_ms = start_ts_ms
    /\ window_ms = Min2(2 * HourMs, StatedMaxWindow)
    /\ [](window_ms <= StatedMaxWindow)
    /\ [][ lastProbe' # lastProbe =>
             /\ lastProbe'.start = cursor_ms
             /\ lastProbe'.start = (IF nprobes = 0 THEN start_ts_ms ELSE lastProbe.end)
             /\ lastProbe'.end <= start_ts_ms + max_lookahead_ms
             /\ lastProbe'.end - lastProbe'.start <= window_ms
             /\ pc' = "loop" =>
                   /\ cursor_ms' = lastProbe'.end
                   /\ window_ms' = Min2(2 * window_ms, StatedMaxWindow) ]_vars

\* C24 witness: five probes without a launch time, of 2h, 4h, 8h, 16h and a
\* last one cut at search_end, with the window at its cap of 16h.
C24_Witness ==
    /\ pc = "loop"
    /\ nprobes = 5
    /\ window_ms = 16 * HourMs
    /\ lastProbe.start = start_ts_ms + 30 * HourMs
    /\ lastProbe.end = start_ts_ms + max_lookahead_ms
    /\ cursor_ms = lastProbe.end

\* C27: a launch time find_first_trade_time returns is one of the timestamps
\* of the answer to its last probe, not earlier than anchor - interval_ms and
\* not later than anchor + max_lookahead_ms + 2 * interval_ms, whatever the
\* source answers.
C27_ReturnedTimeInRange ==
    \A dt \in result :
        /\ nprobes > 0
        /\ lastProbe.kind # "raise"
        /\ DatetimeMs(dt) \in lastProbe.ts
        /\ start_ts_ms - interval_ms <= DatetimeMs(dt)
        /\ DatetimeMs(dt) <= start_ts_ms + max_lookahead_ms + 2 * interval_ms

\* C27 witness: the latest launch time the sanity check lets through,
\* search_end + 2 * interval_ms, was returned by a source that answers freely.
C27_Witness ==
    /\ source.mode = "free"
    /\ interval_ms > 0
    /\ exitKind = "found"
    /\ \A dt \in result :
          DatetimeMs(dt) = start_ts_ms + max_lookahead_ms + 2 * interval_ms

\* C25: a call for Bybit, Bitget or XT searches futures first, and when the
\* futures search yields no launch time the spot market is searched and the
\* call returns the result of that search: no call returns from the futures
\* market without a launch time.
C25_SpotSearchedWhenFuturesEmpty ==
    /\ (resolve.source_exchange \in SearchVenues /\ resolve.pc = "fetching"
          /\ ~resolve.requested) => resolve.market = "futures"
    /\ (resolve.source_exchange \in SearchVenues /\ resolve.pc = "returned"
          /\ resolve.market = "futures") => resolve.launch_time # {}

\* C26: every confirmed micro-high with a pullback low has
\* pullback_low_time strictly later than micro_high_time and
\* pullback_low_close <= micro_high_close, and its pullback_size is not
\* negative.
C26_PullbackNotAboveHigh ==
    micro.pc = "done" =>
        \A k \in 1..Len(micro.confirmed) :
            LET high == micro.confirmed[k]
            IN  /\ \A t \in high.pullback_low_time : t > high.micro_high_time
                /\ \A low \in high.pullback_low_close : low <= high.micro_high_close
                /\ \A size \in high.pullback_size : size >= 0

\* the position in the 3-minute series of the bucket of the k-th confirmed high
SeriesIndex(k) ==
    CHOOSE i \in 1..Len(micro.series) :
        micro.series[i].bucket_start = micro.confirmed[k].bucket_start

\* C28: the confirmed highs are buckets of the series in strictly ascending
\* bucket_start order, and between two consecutive confirmed highs lies at
\* least one bucket of the series.
C28_AscendingNeverAdjacent ==
    micro.pc = "done" =>
        /\ \A k \in 1..Len(micro.confirmed) :
              \E i \in 1..Len(micro.series) :
                 micro.series[i].bucket_start = micro.confirmed[k].bucket_start
        /\ \A k \in 1..(Len(micro.confirmed) - 1) :
              /\ micro.confirmed[k].bucket_start < micro.confirmed[k + 1].bucket_start
              /\ SeriesIndex(k + 1) >= SeriesIndex(k) + 2

\* C28 witness: two confirmed highs with exactly one bucket between them.
C28_Witness ==
    /\ micro.pc = "done"
    /\ Len(micro.confirmed) >= 2
    /\ SeriesIndex(2) = SeriesIndex(1) + 2

====
